---- MODULE Spec2Model ----
(***************************************************************************)
(* Model of src/main.py: pack_shapes (the row/column grid packer with      *)
(* multi-sheet overflow), calculate_shape_area, calculate_unused_area and  *)
(* the request size the main flow derives (area_bound).                    *)
(*                                                                         *)
(* Lengths are whole multiples of one length unit.  The code's reals are   *)
(* modelled exactly, not in floating point: every coordinate the code      *)
(* computes has the form (p + q*sqrt(3))/6 with integers p and q, and is   *)
(* kept as the pair <<p, q>>.  Comparisons are decided exactly by          *)
(* squaring.  Areas have the form (one + s3*sqrt(3) + pi*PI)/4.            *)
(* Rounding of IEEE doubles at an exact boundary (x == bound up to one     *)
(* ulp) is therefore outside the model.                                    *)
(***************************************************************************)
EXTENDS Integers, Sequences, FiniteSets, TLC

\* ------------------------------------------------------------------ bounds
MaxDim   == 2   \* largest shape parameter (r, L, l, w, a)
MaxClr   == 1   \* largest clearance
MaxSheet == 5   \* largest sheet width / height
MaxReq   == 4   \* largest directly requested num_shapes

\* math.pi as the convergent PiNum/PiDen; exact for every comparison of
\* integers below 33102 made here.
PiNum == 355
PiDen == 113

\* ------------------------------------------------- numbers (p + q*sqrt3)/6
Num(n)      == <<6 * n, 0>>
Zero        == <<0, 0>>
Add(u, v)   == <<u[1] + v[1], u[2] + v[2]>>
Sub(u, v)   == <<u[1] - v[1], u[2] - v[2]>>
Times(k, u) == <<k * u[1], k * u[2]>>
Half(u)     == <<u[1] \div 2, u[2] \div 2>>
Third(u)    == <<u[1] \div 3, u[2] \div 3>>
\* u * math.sqrt(3) / 2
Sqrt3Half(u) == <<(3 * u[2]) \div 2, u[1] \div 2>>
\* p + q*sqrt3 > 0
Pos(u) ==
  LET p == u[1]
      q == u[2]
  IN  IF p >= 0 /\ q >= 0 THEN p > 0 \/ q > 0
      ELSE IF p <= 0 /\ q <= 0 THEN FALSE
      ELSE IF p > 0 THEN p * p > 3 * q * q
      ELSE 3 * q * q > p * p
Gt(u, v) == Pos(Sub(u, v))
Ge(u, v) == ~Pos(Sub(v, u))
Le(u, v) == ~Pos(Sub(u, v))
\* int(a / b) for positive rational a, b
IntDiv(a, b) == a[1] \div b[1]

\* ------------------------------------------------------------------- state
VARIABLES shape_type, shape_params, num_shapes, sheet_w, sheet_h, clearance,
          params, dx, dy, placed, sheets, sheet_positions,
          row, col, y, x_offset, pc

vars == <<shape_type, shape_params, num_shapes, sheet_w, sheet_h, clearance,
          params, dx, dy, placed, sheets, sheet_positions,
          row, col, y, x_offset, pc>>

inputs == <<shape_type, shape_params, num_shapes, sheet_w, sheet_h, clearance>>

ShapeTypes == {"circle", "square", "rectangle", "triangle", "semi-circle"}

\* the parameter dictionaries the UI builds for a shape type
ParamDicts(t, D) ==
  CASE t = "circle"      -> { [r |-> n] : n \in D }
    [] t = "square"      -> { [L |-> n] : n \in D }
    [] t = "rectangle"   -> { [l |-> n, w |-> m] : n \in D, m \in D }
    [] t = "triangle"    -> { [a |-> n] : n \in D }
    [] t = "semi-circle" -> { [r |-> n] : n \in D }

\* ------------------------------------------------------------------- areas
\* calculate_shape_area, in quarters: (one + s3*sqrt3 + pi*PI)/4
calculate_shape_area(t, p) ==
  CASE t = "circle"      -> [one |-> 0, s3 |-> 0, pi |-> 4 * p.r * p.r]
    [] t = "square"      -> [one |-> 4 * p.L * p.L, s3 |-> 0, pi |-> 0]
    [] t = "rectangle"   -> [one |-> 4 * p.l * p.w, s3 |-> 0, pi |-> 0]
    [] t = "triangle"    -> [one |-> 0, s3 |-> p.a * p.a, pi |-> 0]
    [] t = "semi-circle" -> [one |-> 0, s3 |-> 0, pi |-> 2 * p.r * p.r]

\* calculate_unused_area: sheet_area - shape_area * count
calculate_unused_area(t, p, w, h, count) ==
  LET shape_area == calculate_shape_area(t, p)
  IN  [one |-> 4 * w * h - shape_area.one * count,
       s3  |-> 0 - shape_area.s3 * count,
       pi  |-> 0 - shape_area.pi * count]

\* A >= 0 for an area A (at most one of s3, pi is non-zero)
AreaNonNeg(A) ==
  IF A.pi = 0 THEN ~Pos(<<0 - A.one, 0 - A.s3>>)
  ELSE A.one * PiDen + A.pi * PiNum >= 0

\* int(sheet_area // shape_area)
area_bound(t, p, w, h) ==
  CHOOSE n \in 0..(3 * w * h) :
     /\ AreaNonNeg(calculate_unused_area(t, p, w, h, n))
     /\ ~AreaNonNeg(calculate_unused_area(t, p, w, h, n + 1))

\* ----------------------------------------------------------- pack_shapes
\* lines 33-37: circle, hexagonal rows
CirclePitch(p, c) ==
  LET D_eff == Num(2 * p.r + c)
  IN  [dx |-> D_eff, dy |-> Sqrt3Half(D_eff), params |-> p]

\* the clearance is left out of the square pitch
SquarePitch_NoClearance(p, c) ==
  [dx |-> Num(p.L), dy |-> Num(p.L), params |-> p]

\* lines 38-42: square
SquarePitch(p, c) ==
  LET D_eff == Num(p.L + c)
  IN  [dx |-> D_eff, dy |-> D_eff, params |-> p]

\* lines 43-60: rectangle, both orientations estimated against the sheet
RectanglePitch(p, c, w, h) ==
  LET dx1 == Num(p.l + c)
      dy1 == Num(p.w + c)
      dx2 == Num(p.w + c)
      dy2 == Num(p.l + c)
      rows1 == IntDiv(Num(h), dy1)
      cols1 == IntDiv(Num(w), dx1)
      rows2 == IntDiv(Num(h), dy2)
      cols2 == IntDiv(Num(w), dx2)
  IN  IF rows1 * cols1 >= rows2 * cols2
      THEN [dx |-> dx1, dy |-> dy1, params |-> p]
      ELSE [dx |-> dx2, dy |-> dy1, params |-> [l |-> p.w, w |-> p.l]]

\* lines 61-65: triangle
TrianglePitch(p, c) ==
  LET h_ == Sqrt3Half(Num(p.a))
  IN  [dx |-> Num(p.a + c), dy |-> Add(h_, Num(c)), params |-> p]

\* lines 66-69: semi-circle
SemiCirclePitch(p, c) ==
  [dx |-> Num(2 * p.r + c), dy |-> Num(p.r + c), params |-> p]

\* grid increments per shape: dx, dy and the (possibly swapped) params
GridIncrements(t, p, c, w, h) ==
  CASE t = "circle"      -> CirclePitch(p, c)
    [] t = "square"      -> SquarePitch(p, c)
    [] t = "rectangle"   -> RectanglePitch(p, c, w, h)
    [] t = "triangle"    -> TrianglePitch(p, c)
    [] t = "semi-circle" -> SemiCirclePitch(p, c)

\* y coordinate of a row
RowY(t, p, rw, dy_) ==
  CASE t = "circle"      -> Add(Num(p.r), Times(rw, dy_))
    [] t = "square"      -> Add(Half(Num(p.L)), Times(rw, dy_))
    [] t = "rectangle"   -> Add(Half(Num(p.w)), Times(rw, dy_))
    [] t = "triangle"    -> Add(Third(Sqrt3Half(Num(p.a))), Times(rw, dy_))
    [] t = "semi-circle" -> Add(Num(p.r), Times(rw, dy_))

\* the trailing extent of the shape is forgotten
RowBound_NoExtent(t, p, h) == Num(h)

\* the row loop breaks when y exceeds this
RowBound(t, p, h) ==
  CASE t = "circle"      -> Sub(Num(h), Num(p.r))
    [] t = "square"      -> Sub(Num(h), Half(Num(p.L)))
    [] t = "rectangle"   -> Sub(Num(h), Half(Num(p.w)))
    [] t = "triangle"    -> Sub(Num(h), Third(Times(2, Sqrt3Half(Num(p.a)))))
    [] t = "semi-circle" -> Sub(Num(h), Num(p.r))

\* odd circle rows are not shifted
XOffset_None(t, rw, dx_) == Zero

\* horizontal offset of a row
XOffset(t, rw, dx_) ==
  IF t = "circle" /\ rw % 2 # 0 THEN Half(dx_) ELSE Zero

\* x coordinate of a column
ColX(t, p, xo, cl, dx_) ==
  CASE t = "circle"      -> Add(Add(xo, Num(p.r)), Times(cl, dx_))
    [] t = "square"      -> Add(Add(xo, Half(Num(p.L))), Times(cl, dx_))
    [] t = "rectangle"   -> Add(Add(xo, Half(Num(p.l))), Times(cl, dx_))
    [] t = "triangle"    -> Add(Add(xo, Half(Num(p.a))), Times(cl, dx_))
    [] t = "semi-circle" -> Add(Add(xo, Num(p.r)), Times(cl, dx_))

\* the column loop breaks when x exceeds this
ColBound(t, p, w) ==
  CASE t = "circle"      -> Sub(Num(w), Num(p.r))
    [] t = "square"      -> Sub(Num(w), Half(Num(p.L)))
    [] t = "rectangle"   -> Sub(Num(w), Half(Num(p.l)))
    [] t = "triangle"    -> Sub(Num(w), Half(Num(p.a)))
    [] t = "semi-circle" -> Sub(Num(w), Num(p.r))

\* off by one: one shape more than requested is placed
MayPlace_OffByOne(pl, n) == pl <= n

\* `if placed < num_shapes` inside the column loop
MayPlace(pl, n) == pl < n

\* the empty-sheet check is missing
SheetIsEmpty_Never(sp) == FALSE

\* `if not sheet_positions`
SheetIsEmpty(sp) == sp = <<>>

\* the row loop gives up one shape early
RowLoopDone_Early(pl, n) == pl + 1 >= n

\* line 140: `if placed >= num_shapes: break` after a row
RowLoopDone(pl, n) == pl >= n

\* line 149: `if placed >= num_shapes: break` after a sheet
SheetLoopDone(pl, n) == pl >= n

\* the requests the model issues: any count up to MaxReq, and the count the
\* main flow passes (area_bound)
Requests(t, p, w, h) == (0..MaxReq) \cup {area_bound(t, p, w, h)}

\* the scenarios of the specification, in units of 0.01
Scenarios ==
  { [t |-> "circle", p |-> [r |-> 10], c |-> 0, w |-> 100, h |-> 100, n |-> 31],
    [t |-> "square", p |-> [L |-> 30], c |-> 1, w |-> 100, h |-> 50, n |-> 5] }

SmallInputs ==
  UNION { UNION { { [t |-> t, p |-> p, c |-> c, w |-> w, h |-> h, n |-> n] :
                      c \in 0..MaxClr, n \in Requests(t, p, w, h) } :
                  p \in ParamDicts(t, 1..MaxDim), w \in 1..MaxSheet, h \in 1..MaxSheet } :
          t \in ShapeTypes }

Init ==
  /\ \E i \in SmallInputs \cup Scenarios :
        /\ shape_type = i.t
        /\ shape_params = i.p
        /\ clearance = i.c
        /\ sheet_w = i.w
        /\ sheet_h = i.h
        /\ num_shapes = i.n
  /\ params = shape_params
  /\ dx = Zero
  /\ dy = Zero
  /\ placed = 0
  /\ sheets = <<>>
  /\ sheet_positions = <<>>
  /\ row = 0
  /\ col = 0
  /\ y = Zero
  /\ x_offset = Zero
  /\ pc = "pitch"

\* lines 29-71: placed = 0, sheets = [], grid increments
DeterminePitch ==
  /\ pc = "pitch"
  /\ LET g == GridIncrements(shape_type, shape_params, clearance, sheet_w, sheet_h)
     IN  /\ dx' = g.dx
         /\ dy' = g.dy
         /\ params' = g.params
  /\ placed' = 0
  /\ sheets' = <<>>
  /\ pc' = "sheet"
  /\ UNCHANGED <<inputs, sheet_positions, row, col, y, x_offset>>

\* lines 74-76 and 152: while placed < num_shapes ... return sheets
SheetLoop ==
  /\ pc = "sheet"
  /\ IF placed < num_shapes
     THEN /\ sheet_positions' = <<>>
          /\ row' = 0
          /\ pc' = "row"
     ELSE /\ pc' = "done"
          /\ UNCHANGED <<sheet_positions, row>>
  /\ UNCHANGED <<inputs, params, dx, dy, placed, sheets, col, y, x_offset>>

\* lines 77-106: y of the row, break when past the sheet, else start columns
RowHead ==
  /\ pc = "row"
  /\ LET yy == RowY(shape_type, params, row, dy)
     IN  IF Gt(yy, RowBound(shape_type, params, sheet_h))
         THEN /\ pc' = "sheet_end"
              /\ UNCHANGED <<y, x_offset, col>>
         ELSE /\ y' = yy
              /\ x_offset' = XOffset(shape_type, row, dx)
              /\ col' = 0
              /\ pc' = "col"
  /\ UNCHANGED <<inputs, params, dx, dy, placed, sheets, sheet_positions, row>>

\* lines 107-138: x of the column, break or place one shape
ColStep ==
  /\ pc = "col"
  /\ LET x == ColX(shape_type, params, x_offset, col, dx)
     IN  IF Gt(x, ColBound(shape_type, params, sheet_w))
         THEN /\ pc' = "row_end"
              /\ UNCHANGED <<sheet_positions, placed, col>>
         ELSE IF MayPlace(placed, num_shapes)
         THEN /\ sheet_positions' =
                   Append(sheet_positions,
                          [type |-> shape_type, params |-> params, x |-> x, y |-> y])
              /\ placed' = placed + 1
              /\ col' = col + 1
              /\ pc' = "col"
         ELSE /\ pc' = "row_end"
              /\ UNCHANGED <<sheet_positions, placed, col>>
  /\ UNCHANGED <<inputs, params, dx, dy, sheets, row, y, x_offset>>

\* lines 140-142
RowEnd ==
  /\ pc = "row_end"
  /\ IF RowLoopDone(placed, num_shapes)
     THEN /\ pc' = "sheet_end"
          /\ UNCHANGED row
     ELSE /\ row' = row + 1
          /\ pc' = "row"
  /\ UNCHANGED <<inputs, params, dx, dy, placed, sheets, sheet_positions, col, y, x_offset>>

\* lines 144-152
SheetEnd ==
  /\ pc = "sheet_end"
  /\ IF SheetIsEmpty(sheet_positions)
     THEN /\ pc' = "error"
          /\ UNCHANGED sheets
     ELSE /\ sheets' = Append(sheets, sheet_positions)
          /\ pc' = IF SheetLoopDone(placed, num_shapes) THEN "done" ELSE "sheet"
  /\ UNCHANGED <<inputs, params, dx, dy, placed, sheet_positions, row, col, y, x_offset>>

Next ==
  \/ DeterminePitch
  \/ SheetLoop
  \/ RowHead
  \/ ColStep
  \/ RowEnd
  \/ SheetEnd

Spec == Init /\ [][Next]_vars

\* the function is sequential code: a step that can be taken is taken
LiveSpec == Init /\ [][Next]_vars /\ WF_vars(Next)

Returned   == pc = "done"
Raised     == pc = "error"
Terminated == Returned \/ Raised

\* ------------------------------------------------ the grid of one sheet
\* rows and columns that pass the bounds checks of lines 81-103 and 125
GridRows == { rw \in 0..(2 * sheet_h) :
                Le(RowY(shape_type, params, rw, dy), RowBound(shape_type, params, sheet_h)) }
GridCols(rw) == { cl \in 0..sheet_w :
                    Le(ColX(shape_type, params, XOffset(shape_type, rw, dx), cl, dx),
                       ColBound(shape_type, params, sheet_w)) }
GridRow(rw) ==
  [ i \in 1..Cardinality(GridCols(rw)) |->
      [type |-> shape_type, params |-> params,
       x |-> ColX(shape_type, params, XOffset(shape_type, rw, dx), i - 1, dx),
       y |-> RowY(shape_type, params, rw, dy)] ]
RECURSIVE GridUpTo(_)
GridUpTo(n) == IF n = 0 THEN <<>> ELSE GridUpTo(n - 1) \o GridRow(n - 1)
\* every grid position of an empty sheet, row-major
FullGrid == GridUpTo(Cardinality(GridRows))
Capacity == Len(FullGrid)

RECURSIVE SumLen(_)
SumLen(ss) == IF ss = <<>> THEN 0 ELSE Len(Head(ss)) + SumLen(Tail(ss))
TotalPlaced == SumLen(sheets)

\* C1: when the request is at least 1 and the grid of an empty sheet has at
\* least one position, pack_shapes returns, and the shapes on all returned
\* sheets together number exactly num_shapes.
C1_TotalEqualsRequested ==
  (Terminated /\ num_shapes >= 1 /\ Capacity >= 1)
     => (Returned /\ TotalPlaced = num_shapes)

\* a request that needed three sheets or more was served
C1_Witness ==
  Returned /\ num_shapes >= 1 /\ Capacity >= 1 /\ Len(sheets) >= 3
           /\ TotalPlaced = num_shapes

\* C7: every sheet but the last is the full grid, the last sheet is a
\* row-major prefix of it holding the remainder, which is 1..capacity.
C7_FullSheetsThenRemainder ==
  (Returned /\ sheets # <<>>) =>
     LET k    == Len(sheets)
         rest == num_shapes - (k - 1) * Capacity
     IN  /\ \A i \in 1..(k - 1) : sheets[i] = FullGrid
         /\ rest >= 1
         /\ rest <= Capacity
         /\ sheets[k] = SubSeq(FullGrid, 1, rest)

\* two full sheets of several rows followed by a partial last sheet
C7_Witness ==
  /\ Returned
  /\ Len(sheets) = 3
  /\ Cardinality(GridRows) >= 2
  /\ sheets[1] = FullGrid
  /\ sheets[2] = FullGrid
  /\ Len(sheets[3]) < Capacity
\* ------------------------------------------------------------ placements
\* the PlacedShape records of sheet k
OnSheet(k) == { sheets[k][i] : i \in 1..Len(sheets[k]) }
Positions(k) == { <<s.x, s.y>> : s \in OnSheet(k) }
AllReturned == UNION { OnSheet(k) : k \in 1..Len(sheets) }

\* the extents of a placed shape, by kind
InsideSheet(s) ==
  LET p == s.params
      W == 6 * sheet_w
      H == 6 * sheet_h
  IN  CASE s.type \in {"circle", "semi-circle"} ->
             /\ Ge(s.x, <<6 * p.r, 0>>) /\ Le(s.x, <<W - 6 * p.r, 0>>)
             /\ Ge(s.y, <<6 * p.r, 0>>) /\ Le(s.y, <<H - 6 * p.r, 0>>)
        [] s.type = "square" ->
             /\ Ge(s.x, <<3 * p.L, 0>>) /\ Le(s.x, <<W - 3 * p.L, 0>>)
             /\ Ge(s.y, <<3 * p.L, 0>>) /\ Le(s.y, <<H - 3 * p.L, 0>>)
        [] s.type = "rectangle" ->
             /\ Ge(s.x, <<3 * p.l, 0>>) /\ Le(s.x, <<W - 3 * p.l, 0>>)
             /\ Ge(s.y, <<3 * p.w, 0>>) /\ Le(s.y, <<H - 3 * p.w, 0>>)
        [] s.type = "triangle" ->
             /\ Ge(s.x, <<3 * p.a, 0>>) /\ Le(s.x, <<W - 3 * p.a, 0>>)
             /\ Ge(s.y, <<0, p.a>>)     /\ Le(s.y, <<H, 0 - 2 * p.a>>)

\* C3: every placed shape of a returned result lies inside the sheet, with
\* the extents of its kind taken from the params stored in the record.
C3_InsideSheet == Returned => \A s \in AllReturned : InsideSheet(s)

\* a circle of an offset (odd) row touches the right edge of the sheet
C3_Witness ==
  /\ Returned
  /\ shape_type = "circle"
  /\ \E s \in AllReturned : /\ s.y[2] # 0
                            /\ s.x = <<6 * (sheet_w - s.params.r), 0>>

\* the square grid in closed form
SquareCount(L, c, size) == IF size < L THEN 0 ELSE (size - L) \div (L + c) + 1
SquareSheet(L, c, R, C) ==
  [ i \in 1..(R * C) |->
      [type |-> "square", params |-> [L |-> L],
       x |-> <<3 * L + 6 * ((i - 1) % C) * (L + c), 0>>,
       y |-> <<3 * L + 6 * ((i - 1) \div C) * (L + c), 0>>] ]
SquareScenario ==
  /\ shape_type = "square" /\ shape_params = [L |-> 30] /\ clearance = 1
  /\ sheet_w = 100 /\ sheet_h = 50 /\ num_shapes >= 3
CircleRows(D, r) ==
  { i \in 0..(2 * sheet_h) :
      sheet_h >= 2 * r /\ 3 * i * i * D * D <= 4 * (sheet_h - 2 * r) * (sheet_h - 2 * r) }
CircleCols(D, r, i) ==
  { j \in 0..sheet_w :
      /\ sheet_w >= 2 * r
      /\ IF i % 2 = 1 THEN (2 * j + 1) * D <= 2 * (sheet_w - 2 * r)
                      ELSE j * D <= sheet_w - 2 * r }
CirclePos(D, r, i, j) ==
  << <<6 * r + (IF i % 2 = 1 THEN 3 * D ELSE 0) + 6 * j * D, 0>>, <<6 * r, 3 * i * D>> >>
CircleGrid(D, r) ==
  UNION { { CirclePos(D, r, i, j) : j \in CircleCols(D, r, i) } : i \in CircleRows(D, r) }
CircleScenario ==
  /\ shape_type = "circle" /\ shape_params = [r |-> 10] /\ clearance = 0
  /\ sheet_w = 100 /\ sheet_h = 100 /\ num_shapes >= 23
RowCountOn(k, D, r, i) ==
  Cardinality({ s \in OnSheet(k) : s.y = <<6 * r, 3 * i * D>> })
\* C9: circles are placed on hexagonal rows: dx = 2r + c, dy = dx*sqrt(3)/2,
\* even rows start at r and odd rows at r + dx/2, positions are kept while
\* y <= sheet_h - r and x <= sheet_w - r; the scenario r = 0.1, c = 0,
\* sheet 1.0 x 1.0 gives rows 0..4 with 5, 4, 5, 4, 5 columns: 23 circles.
C9_CircleHexRows ==
  (shape_type = "circle" /\ pc # "pitch") =>
     LET r == shape_params.r
         D == 2 * r + clearance
         G == CircleGrid(D, r)
     IN  /\ dx = <<6 * D, 0>>
         /\ dy = <<0, 3 * D>>
         /\ \A k \in 1..Len(sheets) :
               /\ Positions(k) \subseteq G
               /\ Cardinality(Positions(k)) = Len(sheets[k])
               /\ k * Cardinality(G) <= num_shapes => Positions(k) = G
         /\ (CircleScenario /\ Returned) =>
               /\ Len(sheets[1]) = 23
               /\ CircleRows(D, r) = 0..4
               /\ \A i \in 0..4 :
                     RowCountOn(1, D, r, i) = IF i % 2 = 0 THEN 5 ELSE 4

\* the scenario returned with 23 circles on sheet one
C9_Witness ==
  Returned /\ CircleScenario /\ Len(sheets[1]) = 23
           /\ RowCountOn(1, 20, 10, 1) = 4

\* sheets held so far: none empty, no more than shapes requested
SheetsBounded ==
  /\ Len(sheets) <= num_shapes
  /\ \A k \in 1..Len(sheets) : sheets[k] # <<>>
\* C10: pack_shapes terminates, by returning or by raising; it never holds
\* more sheets than shapes requested and never holds an empty sheet.
C10_Terminates == <>Terminated /\ []SheetsBounded

\* a run that returned as many sheets as shapes requested, one shape each
C10_Witness ==
  Returned /\ num_shapes >= 3 /\ Len(sheets) = num_shapes
\* ------------------------------------- claims the code does not satisfy
\* u*u for a number u, as six times its value
Sq6(u) == <<u[1] * u[1] + 3 * u[2] * u[2], 2 * u[1] * u[2]>>
Abs(u) == IF Pos(u) THEN u ELSE Sub(Zero, u)

\* the clearance constraint between two placed shapes of the same sheet
Separated(s, t, c) ==
  LET p  == s.params
      ax == Abs(Sub(s.x, t.x))
      ay == Abs(Sub(s.y, t.y))
  IN  CASE s.type = "circle" ->
             Ge(Add(Sq6(ax), Sq6(ay)), Num(6 * (2 * p.r + c) * (2 * p.r + c)))
        [] s.type = "square" ->
             Ge(ax, Num(p.L + c)) \/ Ge(ay, Num(p.L + c))
        [] s.type = "rectangle" ->
             Ge(ax, Num(p.l + c)) \/ Ge(ay, Num(p.w + c))
        [] s.type = "triangle" ->
             Ge(ax, Num(p.a + c)) \/ Ge(ay, <<6 * c, 3 * p.a>>)
        [] s.type = "semi-circle" ->
             Ge(ax, Num(2 * p.r + c)) \/ Ge(ay, Num(p.r + c))

\* C2: any two distinct placed shapes of one returned sheet keep the
\* clearance: footprint + clearance apart in x or in y (circles: centres
\* at least 2r + clearance apart).
C2_ClearanceKept ==
  Returned =>
     \A k \in 1..Len(sheets) :
        \A i, j \in 1..Len(sheets[k]) :
           i < j => Separated(sheets[k][i], sheets[k][j], clearance)

\* C4: when the grid of an empty sheet has no position, pack_shapes raises
\* the unplaceable error for every request, never returning.
C4_UnplaceableRaises ==
  (Terminated /\ Capacity = 0) => Raised

\* C5: a rectangle is placed with the pitch and params of the orientation
\* selected: un-swapped (dx = l + c, dy = w + c) when its estimate is at
\* least the other one, else swapped (dx = w + c, dy = l + c, params
\* {l: w, w: l} on every placed shape).
C5_RectangleOrientation ==
  (shape_type = "rectangle" /\ pc # "pitch") =>
     LET l == shape_params.l
         w == shape_params.w
         c == clearance
         est1 == (sheet_h \div (w + c)) * (sheet_w \div (l + c))
         est2 == (sheet_h \div (l + c)) * (sheet_w \div (w + c))
         chosen == IF est1 >= est2 THEN shape_params ELSE [l |-> w, w |-> l]
     IN  /\ params = chosen
         /\ dx = Num(chosen.l + c)
         /\ dy = Num(chosen.w + c)
         /\ \A s \in AllReturned : s.params = chosen

\* C6: no returned sheet holds more shapes than floor(sheet area / shape
\* area); the unused area of a sheet is never negative.
C6_WithinAreaBound ==
  Returned =>
     \A k \in 1..Len(sheets) :
        /\ Len(sheets[k]) <= area_bound(shape_type, shape_params, sheet_w, sheet_h)
        /\ AreaNonNeg(calculate_unused_area(shape_type, shape_params,
                                            sheet_w, sheet_h, Len(sheets[k])))
====
